---- MODULE Spec2Model ----
(***************************************************************************)
(* A model of aco::Builder (src/amd/compiler/aco_builder_h.py): the        *)
(* insertion context, the generated format factories, the wave-specific    *)
(* opcode adapter, the fixed-register helpers and the arithmetic lowering  *)
(* helpers v_mul_imm, vadd32 and vsub32.                                   *)
(*                                                                         *)
(* A 32-bit word (uint32_t) is the set of its set bit positions, a subset  *)
(* of 0..31, so that every operation keeps its 32-bit width.               *)
(***************************************************************************)
EXTENDS Integers, Sequences, FiniteSets, TLC

VARIABLES program, bld, blocks, last, hist

vars == <<program, bld, blocks, last, hist>>

(***************************************************************************)
(* Bounds of the model.                                                    *)
(***************************************************************************)
\* imm of v_mul_imm ranges over 0..MaxImm and over ImmSpecials
MaxImm == 24
\* the number of helper calls made in one behaviour of the lowering specs
MaxCalls == 1
\* the capacity of a block's instruction sequence in the insertion spec
MaxInstrs == 3
\* the number of instructions a block holds when the builder is made
MaxInitLen == 2
\* the number of times the builder's target is switched in one behaviour
MaxRetargets == 2

(***************************************************************************)
(* 32-bit words.                                                           *)
(***************************************************************************)
WordBits == 32

Bits == 0 .. (WordBits - 1)

RECURSIVE Pow2(_)
Pow2(k) == IF k = 0 THEN 1 ELSE 2 * Pow2(k - 1)

\* the word of a small natural number n < 2^31
U32(n) == {i \in 0 .. 30 : (n \div Pow2(i)) % 2 = 1}

Min(S) == CHOOSE x \in S : \A y \in S : x <= y

\* a + b + c mod 2^32, by ripple carry from bit i on
RECURSIVE AddFrom(_, _, _, _)
AddFrom(a, b, i, c) ==
    IF i = WordBits THEN {}
    ELSE LET x == IF i \in a THEN 1 ELSE 0
             y == IF i \in b THEN 1 ELSE 0
             t == x + y + c
         IN  (IF t % 2 = 1 THEN {i} ELSE {}) \cup AddFrom(a, b, i + 1, t \div 2)

\* a + b mod 2^32
Add32(a, b) ==
    IF a = {} THEN b ELSE IF b = {} THEN a ELSE AddFrom(a, b, 0, 0)

\* a - b mod 2^32: a + ~b + 1
Sub32(a, b) == AddFrom(a, Bits \ b, 0, 1)

\* a << k mod 2^32
Shl32(a, k) == {i + k : i \in a} \cap Bits

\* a * b mod 2^32: acc plus the sum of a << i over the bits i of b
RECURSIVE MulAcc(_, _, _)
MulAcc(a, b, acc) ==
    IF b = {} THEN acc
    ELSE LET i == Min(b)
             sum == Add32(acc, Shl32(a, i))
         IN  IF sum = {} THEN MulAcc(a, b \ {i}, {}) ELSE MulAcc(a, b \ {i}, sum)

Mul32(a, b) ==
    IF Cardinality(a) < Cardinality(b) THEN MulAcc(b, a, {}) ELSE MulAcc(a, b, {})

\* the low five bits of a word, as a number: the shift amount the VALU uses
Low5(a) == (IF 0 \in a THEN 1 ELSE 0) + (IF 1 \in a THEN 2 ELSE 0)
           + (IF 2 \in a THEN 4 ELSE 0) + (IF 3 \in a THEN 8 ELSE 0)
           + (IF 4 \in a THEN 16 ELSE 0)

\* the low 24 bits of a word
Low24(a) == a \cap (0 .. 23)

(***************************************************************************)
(* util/u_math.h, util/bitscan.h                                           *)
(***************************************************************************)
util_bitcount(n) == Cardinality(n)

util_is_power_of_two_or_zero(n) == Cardinality(n) <= 1

util_is_power_of_two_nonzero(n) == Cardinality(n) = 1

\* ffs: one plus the index of the least significant set bit, 0 for 0
ffs(n) == IF n = {} THEN 0 ELSE Min(n) + 1

\* u_bit_scan(&imm): returns the lowest set bit and clears it in imm
u_bit_scan_bit(n) == Min(n)

u_bit_scan_rest(n) == n \ {Min(n)}

(***************************************************************************)
(* The IR data model (aco_ir.h): register classes, temporaries, operands,  *)
(* definitions and instructions.                                           *)
(***************************************************************************)
s1 == [type |-> "sgpr", size |-> 1]

s2 == [type |-> "sgpr", size |-> 2]

v1 == [type |-> "vgpr", size |-> 1]

v2 == [type |-> "vgpr", size |-> 2]

RegClass(type, size) == [type |-> type, size |-> size]

rc_bytes(rc) == 4 * rc.size

\* Temp(id, rc); Temp() has id 0
Temp(id, rc) == [id |-> id, rc |-> rc]

NoTemp == Temp(0, s1)

NoReg == "none"

\* Operand(Temp): an operand that reads a temporary
OperandTemp(t) ==
    [kind |-> "temp", id |-> t.id, rc |-> t.rc, val |-> {}, fixed |-> NoReg,
     is16 |-> FALSE, is24 |-> FALSE]

\* Operand(uint32_t): a constant operand
OperandConst(v) ==
    [kind |-> "const", id |-> 0, rc |-> s1, val |-> v, fixed |-> NoReg,
     is16 |-> FALSE, is24 |-> FALSE]

\* Operand(RegClass): an undefined operand of a register class
OperandUndef(rc) ==
    [kind |-> "undef", id |-> 0, rc |-> rc, val |-> {}, fixed |-> NoReg,
     is16 |-> FALSE, is24 |-> FALSE]

isTemp(op) == op.kind = "temp"

isUndefined(op) == op.kind = "undef"

isConstant(op) == op.kind = "const"

hasRegClass(op) == isTemp(op) \/ isUndefined(op)

\* the constants the hardware encodes inline: 0..64, -16..-1 and
\* +-0.5, +-1.0, +-2.0, +-4.0; every other constant needs a literal slot
FloatInline ==
    { {24, 25, 26, 27, 28, 29}, {24, 25, 26, 27, 28, 29, 31},
      {23, 24, 25, 26, 27, 28, 29}, {23, 24, 25, 26, 27, 28, 29, 31},
      {30}, {30, 31}, {23, 30}, {23, 30, 31} }

isInline(v) ==
    \/ v \subseteq (0 .. 5)
    \/ v = {6}
    \/ (4 .. 31) \subseteq v
    \/ v \in FloatInline

isLiteral(op) == isConstant(op) /\ ~isInline(op.val)

\* Definition(Temp): a write target, not fixed, not hinted, no flags
Definition(t) ==
    [id |-> t.id, rc |-> t.rc, fixed |-> NoReg, hint |-> NoReg,
     precise |-> FALSE, nuw |-> FALSE]

getTemp(d) == Temp(d.id, d.rc)

\* create_instruction<T>(opcode, format, num_operands, num_definitions),
\* with its operands and definitions filled in
Instruction(opcode, format, definitions, operands) ==
    [opcode |-> opcode, format |-> format,
     definitions |-> definitions, operands |-> operands]

NoInstr == Instruction("none", {}, <<>>, <<>>)

(***************************************************************************)
(* The builder and the state one call works on.                            *)
(*   program : [chip_class, wave_size, nextId]                             *)
(*   bld     : [use_iterator, start, instructions, it, it_blk, it_stale,   *)
(*              is_precise, is_nuw]; instructions is a block id, or NULL;  *)
(*             it is an index into the sequence of block it_blk, Len + 1   *)
(*             being end(); it_stale says that another builder has         *)
(*             inserted into that sequence since it was obtained, which    *)
(*             invalidates it                                              *)
(*   blocks  : block id -> sequence of instructions                        *)
(* A call threads the record s = [program, b, blocks, emitted, res, ub,    *)
(* crashed]                                                                *)
(* through the operators below; emitted lists what the call constructed,   *)
(* in construction order, and res is the handle last returned.             *)
(***************************************************************************)
NULL == 0

GFX8 == 8

GFX7 == GFX8 - 1

GFX9 == 9

GFX10 == 10

ChipClasses == {GFX7, GFX8, GFX9, GFX10}

WaveSizes == {32, 64}

BlockIds == {1, 2}

\* lm(pgm ? pgm->lane_mask : s2): s1 in wave32, s2 in wave64
lane_mask(p) == IF p.wave_size = 64 THEN s2 ELSE s1

\* Builder(Program *pgm)
Builder0 ==
    [use_iterator |-> FALSE, start |-> FALSE, instructions |-> NULL,
     it |-> 1, it_blk |-> NULL, it_stale |-> FALSE,
     is_precise |-> FALSE, is_nuw |-> FALSE]

\* Builder(Program *pgm, Block *block)
BuilderBlock(blk) == [Builder0 EXCEPT !.instructions = blk]

\* Builder::precise()
precise(b) == [b EXCEPT !.is_precise = TRUE]

\* Builder::nuw()
nuw(b) == [b EXCEPT !.is_nuw = TRUE]

\* Builder::moveEnd(Block *block)
moveEnd(b, blk) == [b EXCEPT !.instructions = blk]

\* Builder::reset()
reset0(b) ==
    [b EXCEPT !.use_iterator = FALSE, !.start = FALSE, !.instructions = NULL]

\* Builder::reset(Block *block), Builder::reset(std::vector<...> *instrs)
reset_block(b, blk) ==
    [b EXCEPT !.use_iterator = FALSE, !.start = FALSE, !.instructions = blk]

\* Builder::reset(std::vector<...> *instrs, iterator instr_it)
reset_it(b, blk, instr_it) ==
    [b EXCEPT !.use_iterator = TRUE, !.start = FALSE, !.instructions = blk,
              !.it = instr_it, !.it_blk = blk, !.it_stale = FALSE]

\* vector::emplace(it, x): x is put before position it
emplace(seq, i, x) ==
    SubSeq(seq, 1, i - 1) \o <<x>> \o SubSeq(seq, i, Len(seq))

\* insert with "it = std::next(it)" left out
insert_no_advance(s, instr) ==
    LET b == s.b
        seq == s.blocks[b.instructions]
        placed ==
            IF b.instructions = NULL THEN s
            ELSE IF b.use_iterator
            THEN [s EXCEPT !.blocks[b.instructions] = emplace(seq, b.it, instr)]
            ELSE IF ~b.start
            THEN [s EXCEPT !.blocks[b.instructions] = Append(seq, instr)]
            ELSE [s EXCEPT !.blocks[b.instructions] = emplace(seq, 1, instr)]
    IN  [placed EXCEPT !.emitted = Append(s.emitted, instr), !.res = instr]

\* Builder::insert.  emplace(it, ..) with an iterator of another sequence
\* is undefined: the call crashes (s.ub < 0), or the instruction lands at
\* the front (s.ub = 0) or at the end of the target.  emplace(it, ..) with
\* an invalidated iterator of the target is undefined too: the call crashes
\* (s.ub < 0), or the instruction lands where it pointed to when it was
\* valid (s.ub = 0, the storage was not moved) or at the end of the target
insert(s, instr) ==
    LET b == s.b
        seq == s.blocks[b.instructions]
        pos == IF s.ub = 0 THEN 1 ELSE Len(seq) + 1
        old == IF s.ub = 0 THEN b.it ELSE Len(seq) + 1
        placed ==
            IF b.instructions = NULL THEN s
            ELSE IF b.use_iterator /\ b.it_blk = b.instructions /\ ~b.it_stale
            THEN [s EXCEPT !.blocks[b.instructions] = emplace(seq, b.it, instr),
                           !.b.it = b.it + 1]
            ELSE IF b.use_iterator /\ s.ub < 0
            THEN [s EXCEPT !.crashed = TRUE]
            ELSE IF b.use_iterator /\ b.it_blk = b.instructions
            THEN [s EXCEPT !.blocks[b.instructions] = emplace(seq, old, instr),
                           !.b.it = old + 1, !.b.it_stale = FALSE]
            ELSE IF b.use_iterator
            THEN [s EXCEPT !.blocks[b.instructions] = emplace(seq, pos, instr),
                           !.b.it = pos + 1, !.b.it_blk = b.instructions,
                           !.b.it_stale = FALSE]
            ELSE IF ~b.start
            THEN [s EXCEPT !.blocks[b.instructions] = Append(seq, instr)]
            ELSE [s EXCEPT !.blocks[b.instructions] = emplace(seq, 1, instr)]
    IN  [placed EXCEPT !.emitted = Append(s.emitted, instr), !.res = instr]

\* Program::allocateTmp / allocateId through Builder::tmp and Builder::def:
\* the state after the allocation; the id allocated is s.program.nextId
alloc(s) == [s EXCEPT !.program.nextId = s.program.nextId + 1]

\* Builder::tmp(RegClass rc): the Temp allocated in state s
tmp(s, rc) == Temp(s.program.nextId, rc)

\* Builder::def(RegClass rc): the Definition allocated in state s
def(s, rc) == Definition(tmp(s, rc))

(***************************************************************************)
(* The generated format factories (one per format and shape).              *)
(***************************************************************************)
Prod(A, B) == {<<x, y>> : x \in A, y \in B}

\* the table the template is rendered from: builder name, format tags and
\* the shapes <<num_definitions, num_operands>> it is generated for
FormatTable ==
    { [name |-> "pseudo", formats |-> {"PSEUDO"},
       shapes |-> Prod(0 .. 4, 0 .. 5) \cup {<<8, 1>>, <<1, 8>>}],
      [name |-> "sop1", formats |-> {"SOP1"},
       shapes |-> {<<0, 1>>, <<1, 0>>, <<1, 1>>, <<2, 1>>, <<3, 2>>}],
      [name |-> "sop2", formats |-> {"SOP2"}, shapes |-> Prod({1, 2}, {2, 3})],
      [name |-> "sopk", formats |-> {"SOPK"}, shapes |-> Prod({0, 1, 2}, {0, 1})],
      [name |-> "sopp", formats |-> {"SOPP"}, shapes |-> Prod({0, 1}, {0, 1})],
      [name |-> "sopc", formats |-> {"SOPC"}, shapes |-> {<<1, 2>>}],
      [name |-> "smem", formats |-> {"SMEM"},
       shapes |-> {<<0, 4>>, <<0, 3>>, <<1, 0>>, <<1, 3>>, <<1, 2>>, <<0, 0>>}],
      [name |-> "ds", formats |-> {"DS"},
       shapes |-> {<<1, 1>>, <<1, 2>>, <<0, 3>>, <<0, 4>>}],
      [name |-> "mubuf", formats |-> {"MUBUF"}, shapes |-> {<<0, 4>>, <<1, 3>>}],
      [name |-> "mtbuf", formats |-> {"MTBUF"}, shapes |-> {<<0, 4>>, <<1, 3>>}],
      [name |-> "mimg", formats |-> {"MIMG"},
       shapes |-> Prod({0, 1}, {3, 4, 5, 6, 7})],
      [name |-> "exp", formats |-> {"EXP"}, shapes |-> {<<0, 4>>}],
      [name |-> "branch", formats |-> {"PSEUDO_BRANCH"},
       shapes |-> Prod({1}, {0, 1})],
      [name |-> "barrier", formats |-> {"PSEUDO_BARRIER"}, shapes |-> {<<0, 0>>}],
      [name |-> "reduction", formats |-> {"PSEUDO_REDUCTION"},
       shapes |-> {<<3, 2>>}],
      [name |-> "vop1", formats |-> {"VOP1"},
       shapes |-> {<<0, 0>>, <<1, 1>>, <<2, 2>>}],
      [name |-> "vop1_sdwa", formats |-> {"VOP1", "SDWA"}, shapes |-> {<<1, 1>>}],
      [name |-> "vop2", formats |-> {"VOP2"}, shapes |-> Prod({1, 2}, {2, 3})],
      [name |-> "vop2_sdwa", formats |-> {"VOP2", "SDWA"},
       shapes |-> Prod({1, 2}, {2, 3})],
      [name |-> "vopc", formats |-> {"VOPC"}, shapes |-> Prod({1, 2}, {2})],
      [name |-> "vop3", formats |-> {"VOP3"},
       shapes |-> {<<1, 3>>, <<1, 2>>, <<1, 1>>, <<2, 2>>}],
      [name |-> "vop3p", formats |-> {"VOP3P"}, shapes |-> {<<1, 2>>, <<1, 3>>}],
      [name |-> "vintrp", formats |-> {"VINTRP"}, shapes |-> {<<1, 2>>, <<1, 3>>}],
      [name |-> "vop1_dpp", formats |-> {"VOP1", "DPP"}, shapes |-> {<<1, 1>>}],
      [name |-> "vop2_dpp", formats |-> {"VOP2", "DPP"},
       shapes |-> Prod({1, 2}, {2, 3})],
      [name |-> "vopc_dpp", formats |-> {"VOPC", "DPP"},
       shapes |-> Prod({1, 2}, {2})],
      [name |-> "vop1_e64", formats |-> {"VOP1", "VOP3"},
       shapes |-> Prod({1}, {1})],
      [name |-> "vop2_e64", formats |-> {"VOP2", "VOP3"},
       shapes |-> Prod({1, 2}, {2, 3})],
      [name |-> "vopc_e64", formats |-> {"VOPC", "VOP3"},
       shapes |-> Prod({1, 2}, {2})],
      [name |-> "flat", formats |-> {"FLAT"}, shapes |-> {<<0, 3>>, <<1, 2>>}],
      [name |-> "global", formats |-> {"GLOBAL"}, shapes |-> {<<0, 3>>, <<1, 2>>}] }

\* the definitions of an instruction a factory fills in: def_i copied, then
\* setPrecise(is_precise) and setNUW(is_nuw)
factory_defs(b, defs) ==
    [i \in 1 .. Len(defs) |->
        [defs[i] EXCEPT !.precise = b.is_precise, !.nuw = b.is_nuw]]

\* Result <name>(aco_opcode opcode, Definition def0.., Op op0..)
factory(s, format, opcode, defs, ops) ==
    insert(s, Instruction(opcode, format, factory_defs(s.b, defs), ops))

pseudo(s, opcode, defs, ops) == factory(s, {"PSEUDO"}, opcode, defs, ops)

vop2(s, opcode, defs, ops) == factory(s, {"VOP2"}, opcode, defs, ops)

vop3(s, opcode, defs, ops) == factory(s, {"VOP3"}, opcode, defs, ops)

\* the handle's conversions: operator Temp() and operator Operand()
ResultTemp(s) == getTemp(s.res.definitions[1])

ResultOp(s) == OperandTemp(ResultTemp(s))

(***************************************************************************)
(* The wave-specific opcode adapter.                                       *)
(***************************************************************************)
\* enum WaveSpecificOpcode: each logical opcode has the value of its 64-bit
\* concrete opcode
WaveSpecificOpcode ==
    [s_cselect |-> "s_cselect_b64", s_cmp_lg |-> "s_cmp_lg_u64",
     s_and |-> "s_and_b64", s_andn2 |-> "s_andn2_b64", s_or |-> "s_or_b64",
     s_orn2 |-> "s_orn2_b64", s_not |-> "s_not_b64", s_mov |-> "s_mov_b64",
     s_wqm |-> "s_wqm_b64", s_and_saveexec |-> "s_and_saveexec_b64",
     s_or_saveexec |-> "s_or_saveexec_b64", s_xnor |-> "s_xnor_b64",
     s_xor |-> "s_xor_b64", s_bcnt1_i32 |-> "s_bcnt1_i32_b64",
     s_bitcmp1 |-> "s_bitcmp1_b64", s_ff1_i32 |-> "s_ff1_i32_b64",
     s_flbit_i32 |-> "s_flbit_i32_b64", s_lshl |-> "s_lshl_b64"]

WaveSpecificNames == DOMAIN WaveSpecificOpcode

\* unreachable("Unsupported wave specific opcode.")
Unsupported == "unreachable"

\* w64or32 with the case of s_lshl left out of the switch
w64or32_no_lshl(p, opcode) ==
    LET W == WaveSpecificOpcode IN
    IF p.wave_size = 64 THEN opcode
    ELSE CASE opcode = W.s_cselect -> "s_cselect_b32"
           [] opcode = W.s_cmp_lg -> "s_cmp_lg_u32"
           [] opcode = W.s_and -> "s_and_b32"
           [] opcode = W.s_andn2 -> "s_andn2_b32"
           [] opcode = W.s_or -> "s_or_b32"
           [] opcode = W.s_orn2 -> "s_orn2_b32"
           [] opcode = W.s_not -> "s_not_b32"
           [] opcode = W.s_mov -> "s_mov_b32"
           [] opcode = W.s_wqm -> "s_wqm_b32"
           [] opcode = W.s_and_saveexec -> "s_and_saveexec_b32"
           [] opcode = W.s_or_saveexec -> "s_or_saveexec_b32"
           [] opcode = W.s_xnor -> "s_xnor_b32"
           [] opcode = W.s_xor -> "s_xor_b32"
           [] opcode = W.s_bcnt1_i32 -> "s_bcnt1_i32_b32"
           [] opcode = W.s_bitcmp1 -> "s_bitcmp1_b32"
           [] opcode = W.s_ff1_i32 -> "s_ff1_i32_b32"
           [] opcode = W.s_flbit_i32 -> "s_flbit_i32_b32"
           [] OTHER -> "unreachable"

\* Builder::w64or32: opcode is a value of the enum
w64or32(p, opcode) ==
    LET W == WaveSpecificOpcode IN
    IF p.wave_size = 64 THEN opcode
    ELSE CASE opcode = W.s_cselect -> "s_cselect_b32"
           [] opcode = W.s_cmp_lg -> "s_cmp_lg_u32"
           [] opcode = W.s_and -> "s_and_b32"
           [] opcode = W.s_andn2 -> "s_andn2_b32"
           [] opcode = W.s_or -> "s_or_b32"
           [] opcode = W.s_orn2 -> "s_orn2_b32"
           [] opcode = W.s_not -> "s_not_b32"
           [] opcode = W.s_mov -> "s_mov_b32"
           [] opcode = W.s_wqm -> "s_wqm_b32"
           [] opcode = W.s_and_saveexec -> "s_and_saveexec_b32"
           [] opcode = W.s_or_saveexec -> "s_or_saveexec_b32"
           [] opcode = W.s_xnor -> "s_xnor_b32"
           [] opcode = W.s_xor -> "s_xor_b32"
           [] opcode = W.s_bcnt1_i32 -> "s_bcnt1_i32_b32"
           [] opcode = W.s_bitcmp1 -> "s_bitcmp1_b32"
           [] opcode = W.s_ff1_i32 -> "s_ff1_i32_b32"
           [] opcode = W.s_flbit_i32 -> "s_flbit_i32_b32"
           [] opcode = W.s_lshl -> "s_lshl_b32"
           [] OTHER -> Unsupported

\* the sop1/sop2/sopc overloads that take a WaveSpecificOpcode
wave_factory(s, format, opcode, defs, ops) ==
    factory(s, format, w64or32(s.program, opcode), defs, ops)

(***************************************************************************)
(* Fixed and hinted architectural registers: m0, vcc, exec, scc.           *)
(* A helper returns [ok, val]; ok is FALSE when its assert fails, and then *)
(* val carries nothing.                                                    *)
(***************************************************************************)
FixedRegs == {"m0", "vcc", "exec", "scc"}

\* the assert with the register domain left unchecked
fixed_assert_width_only(fixed, rc) ==
    (fixed = "vcc" \/ fixed = "exec") => rc_bytes(rc) <= 8

\* assert(type() == RegType::sgpr && bytes() <= 8), generated for vcc, exec
fixed_assert(fixed, rc) ==
    (fixed = "vcc" \/ fixed = "exec") => (rc.type = "sgpr" /\ rc_bytes(rc) <= 8)

NoOperand == OperandUndef(s1)

NoDefinition == Definition(NoTemp)

\* Operand ${fixed}(Temp tmp)
fixed_operand(fixed, t) ==
    IF ~fixed_assert(fixed, t.rc) THEN [ok |-> FALSE, val |-> NoOperand]
    ELSE [ok |-> TRUE, val |-> [OperandTemp(t) EXCEPT !.fixed = fixed]]

\* Definition ${fixed}(Definition def)
fixed_definition(fixed, d) ==
    IF ~fixed_assert(fixed, d.rc) THEN [ok |-> FALSE, val |-> NoDefinition]
    ELSE [ok |-> TRUE, val |-> [d EXCEPT !.fixed = fixed]]

\* Definition hint_${fixed}(Definition def)
hint_definition(fixed, d) ==
    IF ~fixed_assert(fixed, d.rc) THEN [ok |-> FALSE, val |-> NoDefinition]
    ELSE [ok |-> TRUE, val |-> [d EXCEPT !.hint = fixed]]

hint_vcc(d) == hint_definition("vcc", d).val

\* Operand set16bit(Operand op), Operand set24bit(Operand op)
set16bit(op) == [op EXCEPT !.is16 = TRUE]

set24bit(op) == [op EXCEPT !.is24 = TRUE]

(***************************************************************************)
(* The hand-written helpers.                                               *)
(***************************************************************************)
\* Result copy(Definition dst, Op op)
copy(s, dst, op) == pseudo(s, "p_parallelcopy", <<dst>>, <<op>>)

\* b = copy(def(v1), b): the state after the copy; b is then ResultOp of it
materialize(s, b) == copy(alloc(s), def(s, v1), b)

\* vadd32 with the carry-out test of GFX10 placed before the carry-in test
vadd32_carry_out_first(s, dst, a, b, carry_out, carry_in, post_ra) ==
    LET swap == ~isTemp(b) \/ b.rc.type # "vgpr"
        a1 == IF swap THEN b ELSE a
        b1 == IF swap THEN a ELSE b
        mat == ~post_ra /\ (~hasRegClass(b1) \/ b1.rc.type = "sgpr")
        t == IF mat THEN materialize(s, b1) ELSE s
        b2 == IF mat THEN ResultOp(t) ELSE b1
        lm == lane_mask(t.program)
    IN  IF t.program.chip_class >= GFX10 /\ carry_out
        THEN vop3(alloc(t), "v_add_co_u32_e64", <<dst, def(t, lm)>>, <<a1, b2>>)
        ELSE IF ~isUndefined(carry_in)
        THEN vop2(alloc(t), "v_addc_co_u32",
                  <<dst, hint_vcc(def(t, lm))>>, <<a1, b2, carry_in>>)
        ELSE IF t.program.chip_class < GFX9 \/ carry_out
        THEN vop2(alloc(t), "v_add_co_u32",
                  <<dst, hint_vcc(def(t, lm))>>, <<a1, b2>>)
        ELSE vop2(t, "v_add_u32", <<dst>>, <<a1, b2>>)

\* Result vadd32(Definition dst, Op a, Op b, bool carry_out, Op carry_in,
\*               bool post_ra)
vadd32(s, dst, a, b, carry_out, carry_in, post_ra) ==
    LET swap == ~isTemp(b) \/ b.rc.type # "vgpr"
        a1 == IF swap THEN b ELSE a
        b1 == IF swap THEN a ELSE b
        mat == ~post_ra /\ (~hasRegClass(b1) \/ b1.rc.type = "sgpr")
        t == IF mat THEN materialize(s, b1) ELSE s
        b2 == IF mat THEN ResultOp(t) ELSE b1
        lm == lane_mask(t.program)
    IN  IF ~isUndefined(carry_in)
        THEN vop2(alloc(t), "v_addc_co_u32",
                  <<dst, hint_vcc(def(t, lm))>>, <<a1, b2, carry_in>>)
        ELSE IF t.program.chip_class >= GFX10 /\ carry_out
        THEN vop3(alloc(t), "v_add_co_u32_e64", <<dst, def(t, lm)>>, <<a1, b2>>)
        ELSE IF t.program.chip_class < GFX9 \/ carry_out
        THEN vop2(alloc(t), "v_add_co_u32",
                  <<dst, hint_vcc(def(t, lm))>>, <<a1, b2>>)
        ELSE vop2(t, "v_add_u32", <<dst>>, <<a1, b2>>)

\* carry_out as the caller asked, a borrow not forcing it
vsub32_carry_out_no_borrow(p, carry_out, borrow) ==
    p.chip_class < GFX9 \/ carry_out

\* if (!borrow.op.isUndefined() || chip_class < GFX9) carry_out = true
vsub32_carry_out(p, carry_out, borrow) ==
    (~isUndefined(borrow) \/ p.chip_class < GFX9) \/ carry_out

\* the opcode selection with the borrow forms never reversed
vsub32_opcode_borrow_plain(carry_out, reverse, has_borrow) ==
    IF carry_out
    THEN IF ~has_borrow
         THEN (IF reverse THEN "v_subrev_co_u32" ELSE "v_sub_co_u32")
         ELSE "v_subb_co_u32"
    ELSE (IF reverse THEN "v_subrev_u32" ELSE "v_sub_u32")

\* the opcode vsub32 selects, before the GFX10 rewrite to the e64 forms
vsub32_opcode(carry_out, reverse, has_borrow) ==
    IF carry_out
    THEN IF ~has_borrow
         THEN (IF reverse THEN "v_subrev_co_u32" ELSE "v_sub_co_u32")
         ELSE (IF reverse THEN "v_subbrev_co_u32" ELSE "v_subb_co_u32")
    ELSE (IF reverse THEN "v_subrev_u32" ELSE "v_sub_u32")

\* the VOP3 test with the reversed subtract left out
vsub32_vop3_plain_only(chip_class, op) ==
    chip_class >= GFX10 /\ op = "v_sub_co_u32"

\* whether vsub32 builds the subtract in the VOP3 encoding
vsub32_vop3(chip_class, op) ==
    \/ chip_class >= GFX10 /\ op = "v_subrev_co_u32"
    \/ chip_class >= GFX10 /\ op = "v_sub_co_u32"

\* the definitions of the subtract: dst as it was passed, and the carry
vsub32_defs(dst, carry_out, carry) ==
    IF carry_out
    THEN <<dst, [Definition(carry) EXCEPT !.hint = "vcc"]>>
    ELSE <<dst>>

\* Result vsub32(Definition dst, Op a, Op b, bool carry_out, Op borrow)
vsub32(s, dst, a, b, carry_out_arg, borrow) ==
    LET carry_out == vsub32_carry_out(s.program, carry_out_arg, borrow)
        reverse == ~isTemp(b) \/ b.rc.type # "vgpr"
        a1 == IF reverse THEN b ELSE a
        b1 == IF reverse THEN a ELSE b
        mat == ~hasRegClass(b1) \/ b1.rc.type = "sgpr"
        t == IF mat THEN materialize(s, b1) ELSE s
        b2 == IF mat THEN ResultOp(t) ELSE b1
        carry == tmp(t, s2)
        u == IF carry_out THEN alloc(t) ELSE t
        op0 == vsub32_opcode(carry_out, reverse, ~isUndefined(borrow))
        is_vop3 == vsub32_vop3(u.program.chip_class, op0)
        op == IF is_vop3 THEN op0 \o "_e64" ELSE op0
        operands == IF isUndefined(borrow) THEN <<a1, b2>> ELSE <<a1, b2, borrow>>
        sub == Instruction(op, IF is_vop3 THEN {"VOP3"} ELSE {"VOP2"},
                           vsub32_defs(dst, carry_out, carry), operands)
    IN  insert(u, sub)

\* Result readlane(Definition dst, Op vsrc, Op lane)
readlane(s, dst, vsrc, lane) ==
    IF s.program.chip_class >= GFX8
    THEN vop3(s, "v_readlane_b32_e64", <<dst>>, <<vsrc, lane>>)
    ELSE vop2(s, "v_readlane_b32", <<dst>>, <<vsrc, lane>>)

\* Result writelane(Definition dst, Op val, Op lane, Op vsrc)
writelane(s, dst, val, lane, vsrc) ==
    IF s.program.chip_class >= GFX8
    THEN vop3(s, "v_writelane_b32_e64", <<dst>>, <<val, lane, vsrc>>)
    ELSE vop2(s, "v_writelane_b32", <<dst>>, <<val, lane, vsrc>>)

(***************************************************************************)
(* v_mul_imm                                                               *)
(***************************************************************************)
One == U32(1)

has_lshl_add(p) == p.chip_class >= GFX9

\* mul_cost with the cheap multiply assumed from GFX9 on
mul_cost_gfx9(p, imm) ==
    IF p.chip_class >= GFX9 THEN 1
    ELSE 4 + (IF isLiteral(OperandConst(imm)) THEN 1 ELSE 0)

\* unsigned mul_cost = chip_class >= GFX10 ? 1 : (4 + Operand(imm).isLiteral())
mul_cost(p, imm) ==
    IF p.chip_class >= GFX10 THEN 1
    ELSE 4 + (IF isLiteral(OperandConst(imm)) THEN 1 ELSE 0)

\* unsigned instrs_required
instrs_required(p, imm) ==
    IF ~has_lshl_add(p)
    THEN (util_bitcount(imm) - (IF 0 \in imm THEN 1 ELSE 0))
         + (util_bitcount(imm) - 1)
    ELSE util_bitcount(imm)

NoCarryIn == OperandUndef(s2)

\* the shift with its operands in the order of v_lshl_b32: value, amount
shift_fresh_swapped(s, shift, t) ==
    vop2(alloc(s), "v_lshlrev_b32", <<def(s, v1)>>,
         <<OperandTemp(t), OperandConst(U32(shift))>>)

\* vop2(v_lshlrev_b32, def(v1), Operand(shift), tmp): a shift of tmp into a
\* fresh temporary
shift_fresh(s, shift, t) ==
    vop2(alloc(s), "v_lshlrev_b32", <<def(s, v1)>>,
         <<OperandConst(U32(shift)), OperandTemp(t)>>)

\* the step's destination always a fresh temporary, never dst
chain_dst_fresh(s, rest, dst) == def(s, v1)

\* Definition tmp_dst = imm ? def(v1) : dst, imm being what is left
chain_dst(s, rest, dst) == IF rest # {} THEN def(s, v1) ELSE dst

\* the loop "while (imm)" of v_mul_imm: imm is what is left of the constant,
\* cur the running partial result (id 0: none yet)
RECURSIVE mul_chain(_, _, _, _, _)
mul_chain(s, dst, t, imm, cur) ==
    IF imm = {} THEN s
    ELSE LET shift == u_bit_scan_bit(imm)
             rest == u_bit_scan_rest(imm)
             s0 == IF rest # {} THEN alloc(s) ELSE s
             tmp_dst == chain_dst(s, rest, dst)
         IN  IF shift # 0 /\ cur.id # 0
             THEN LET sh == shift_fresh(s0, shift, t)
                      r == vadd32(sh, tmp_dst, ResultOp(sh), OperandTemp(cur),
                                  FALSE, NoCarryIn, FALSE)
                  IN  mul_chain(r, dst, t, rest, getTemp(tmp_dst))
             ELSE IF shift # 0
             THEN LET r == vop2(s0, "v_lshlrev_b32", <<tmp_dst>>,
                                <<OperandConst(U32(shift)), OperandTemp(t)>>)
                  IN  mul_chain(r, dst, t, rest, getTemp(tmp_dst))
             ELSE IF cur.id # 0
             THEN LET r == vadd32(s0, tmp_dst, OperandTemp(t), OperandTemp(cur),
                                  FALSE, NoCarryIn, FALSE)
                  IN  mul_chain(r, dst, t, rest, getTemp(tmp_dst))
             ELSE mul_chain(s0, dst, t, rest, t)

\* Result v_mul_imm(Definition dst, Temp tmp, uint32_t imm, bool bits24)
v_mul_imm(s, dst, t, imm, bits24) ==
    IF imm = {} THEN copy(s, dst, OperandConst({}))
    ELSE IF imm = One THEN copy(s, dst, OperandTemp(t))
    ELSE IF util_is_power_of_two_or_zero(imm)
    THEN vop2(s, "v_lshlrev_b32", <<dst>>,
              <<OperandConst(U32(ffs(imm) - 1)), OperandTemp(t)>>)
    ELSE IF bits24
    THEN vop2(s, "v_mul_u32_u24", <<dst>>, <<OperandConst(imm), OperandTemp(t)>>)
    ELSE IF util_is_power_of_two_nonzero(Sub32(imm, One))
    THEN LET sh == shift_fresh(s, ffs(Sub32(imm, One)) - 1, t)
         IN  vadd32(sh, dst, ResultOp(sh), OperandTemp(t), FALSE, NoCarryIn, FALSE)
    ELSE IF mul_cost(s.program, imm) > 2
            /\ util_is_power_of_two_nonzero(Add32(imm, One))
    THEN LET sh == shift_fresh(s, ffs(Add32(imm, One)) - 1, t)
         IN  vsub32(sh, dst, ResultOp(sh), OperandTemp(t), FALSE, NoCarryIn)
    ELSE IF instrs_required(s.program, imm) < mul_cost(s.program, imm)
    THEN mul_chain([s EXCEPT !.res = NoInstr], dst, t, imm, Temp(0, v1))
    ELSE LET c == copy(alloc(s), def(s, s1), OperandConst(imm))
         IN  vop3(c, "v_mul_lo_u32", <<dst>>, <<ResultOp(c), OperandTemp(t)>>)

\* Result v_mul24_imm(Definition dst, Temp tmp, uint32_t imm)
v_mul24_imm(s, dst, t, imm) == v_mul_imm(s, dst, t, imm, TRUE)

(***************************************************************************)
(* What the emitted VALU instructions compute: env maps the id of a        *)
(* temporary to the 32-bit value it holds (one lane).                      *)
(***************************************************************************)
\* the value of a read that no instruction defined
Poison == {-1}

\* the bit of this lane in a lane mask (lane 0), as a word
LaneBit(mask) == IF 0 \in mask THEN {0} ELSE {}

OperandValue(env, op) ==
    IF isConstant(op) THEN op.val
    ELSE IF isTemp(op) /\ op.id \in DOMAIN env THEN env[op.id]
    ELSE Poison

InstrValue(env, ins) ==
    LET o(i) == OperandValue(env, ins.operands[i])
        n == Len(ins.operands)
        opc == ins.opcode
    IN  IF \E i \in 1 .. n : o(i) = Poison THEN Poison
        ELSE IF opc = "p_parallelcopy" /\ n = 1 THEN o(1)
        ELSE IF opc = "v_lshlrev_b32" THEN Shl32(o(2), Low5(o(1)))
        ELSE IF opc \in {"v_add_u32", "v_add_co_u32", "v_add_co_u32_e64"}
        THEN Add32(o(1), o(2))
        ELSE IF opc \in {"v_sub_u32", "v_sub_co_u32", "v_sub_co_u32_e64"}
        THEN Sub32(o(1), o(2))
        ELSE IF opc \in {"v_subrev_u32", "v_subrev_co_u32", "v_subrev_co_u32_e64"}
        THEN Sub32(o(2), o(1))
        ELSE IF opc = "v_subb_co_u32" /\ n = 3
        THEN Sub32(Sub32(o(1), o(2)), LaneBit(o(3)))
        ELSE IF opc = "v_subbrev_co_u32" /\ n = 3
        THEN Sub32(Sub32(o(2), o(1)), LaneBit(o(3)))
        ELSE IF opc = "v_mul_lo_u32" THEN Mul32(o(1), o(2))
        ELSE IF opc = "v_mul_u32_u24" THEN Mul32(Low24(o(1)), Low24(o(2)))
        ELSE Poison

ExecInstr(env, ins) ==
    IF Len(ins.definitions) = 0 THEN env
    ELSE LET d == ins.definitions[1].id
         IN  [i \in DOMAIN env \cup {d} |->
                 IF i = d THEN InstrValue(env, ins) ELSE env[i]]

RECURSIVE Exec(_, _)
Exec(env, instrs) ==
    IF instrs = <<>> THEN env
    ELSE Exec(ExecInstr(env, Head(instrs)), Tail(instrs))

(***************************************************************************)
(* Initial states: a program of some generation and wave size that has     *)
(* allocated the temporaries 1 .. 4, blocks that hold some instructions    *)
(* already, and a builder as one of its constructors leaves it.            *)
(***************************************************************************)
\* the temporaries a caller holds
VTemp == Temp(1, v1)

STemp == Temp(2, s1)

MaskTemp == Temp(3, s2)

VTemp2 == Temp(4, v1)

FirstFreeId == VTemp2.id + 1

\* the k instructions block blk holds at the start
OldInstrs(blk, k) ==
    [i \in 1 .. k |->
        Instruction("s_nop", {"SOPP"}, <<>>, <<OperandConst(U32(8 * blk + i))>>)]

NoCall ==
    [op |-> "none", via |-> "self", args |-> <<>>, emitted |-> <<>>,
     res |-> NoInstr, fault |-> FALSE, is_precise |-> FALSE, is_nuw |-> FALSE]

\* hist: calls counts the calls made and retargets the switches of target;
\* cursor, blk, seq0, p and new record
\* the sequence and the position a cursor was last put at, and what was
\* constructed since; moved, blk, blocks0 and new record the block moveEnd
\* was last called with, the sequences as they were then, and what was
\* constructed since
NoHist ==
    [calls |-> 0, retargets |-> 0, cursor |-> FALSE, blk |-> NULL,
     seq0 |-> <<>>, p |-> 1, new |-> <<>>, moved |-> FALSE, blocks0 |-> <<>>]

InitWith(chips, waves, lens, builders) ==
    /\ program \in [chip_class : chips, wave_size : waves, nextId : {FirstFreeId}]
    /\ blocks \in {[blk \in BlockIds |-> OldInstrs(blk, k[blk])] :
                      k \in [BlockIds -> lens]}
    /\ bld \in builders
    /\ last = NoCall
    /\ hist = NoHist

(***************************************************************************)
(* Calls.  A call is made through the builder itself ("self") or through   *)
(* the copy precise() or nuw() returns; the copy is dropped after the call *)
(* and the builder keeps its own fields.                                   *)
(***************************************************************************)
Vias == {"self", "precise", "nuw", "precise_nuw"}

ViaBuilder(via) ==
    CASE via = "self" -> bld
      [] via = "precise" -> precise(bld)
      [] via = "nuw" -> nuw(bld)
      [] via = "precise_nuw" -> nuw(precise(bld))

\* the builder's iterator belongs to another sequence than its target
Foreign(b) ==
    b.instructions # NULL /\ b.use_iterator /\ b.it_blk # b.instructions

\* the builder's iterator into its target was invalidated by an insertion
\* another builder made
Stale(b) ==
    b.instructions # NULL /\ b.use_iterator /\ b.it_blk = b.instructions
        /\ b.it_stale

\* what an undefined emplace may do: crash (-1), insert at the front or at
\* the stale position (0), or at the end (1)
UBChoices == IF Foreign(bld) \/ Stale(bld) THEN {-1, 0, 1} ELSE {0}

\* the state a call through via starts in
Start(via, ub) ==
    [program |-> program, b |-> ViaBuilder(via), blocks |-> blocks,
     emitted |-> <<>>, res |-> NoInstr, ub |-> ub, crashed |-> FALSE]

\* the state after a call that ended in state r
Commit(via, r, op, args) ==
    /\ program' = r.program
    /\ blocks' = r.blocks
    /\ bld' = IF via = "self" THEN r.b
              ELSE IF bld.use_iterator /\ bld.it_blk # NULL
                      /\ r.blocks[bld.it_blk] # blocks[bld.it_blk]
              THEN [bld EXCEPT !.it_stale = TRUE]
              ELSE bld
    /\ last' = [op |-> op, via |-> via, args |-> args, emitted |-> r.emitted,
                res |-> r.res, fault |-> r.crashed,
                is_precise |-> r.b.is_precise, is_nuw |-> r.b.is_nuw]
    /\ hist' = [hist EXCEPT !.calls = hist.calls + 1,
                            !.new = IF hist.cursor \/ hist.moved
                                    THEN hist.new \o r.emitted
                                    ELSE <<>>]

\* a caller's destination: bld.def(v1), with the flags it may carry already
DstFlags == [precise : BOOLEAN, nuw : BOOLEAN]

PlainFlags == {[precise |-> FALSE, nuw |-> FALSE]}

Dst(s, f) == [def(s, v1) EXCEPT !.precise = f.precise, !.nuw = f.nuw]

\* the process runs (no assert has failed) and may make one more call
Room(bound) == ~last.fault /\ hist.calls < bound

(***************************************************************************)
(* Actions: the insertion context.                                         *)
(***************************************************************************)
Retarget(b, h) ==
    /\ ~last.fault
    /\ hist.retargets < MaxRetargets
    /\ bld' = b
    /\ hist' = [h EXCEPT !.retargets = hist.retargets + 1]
    /\ last' = NoCall
    /\ UNCHANGED <<program, blocks>>

\* hist once the builder is no longer at the cursor it was put at
Forget == [NoHist EXCEPT !.calls = hist.calls, !.retargets = hist.retargets]

Reset0 == Retarget(reset0(bld), Forget)

ResetBlock ==
    \E blk \in BlockIds :
        Retarget(reset_block(bld, blk), Forget)

ResetIt ==
    \E blk \in BlockIds : \E i \in 1 .. (Len(blocks[blk]) + 1) :
        Retarget(reset_it(bld, blk, i),
                 [Forget EXCEPT !.cursor = TRUE, !.blk = blk,
                                !.seq0 = blocks[blk], !.p = i])

MoveEnd ==
    \E blk \in BlockIds :
        Retarget(moveEnd(bld, blk),
                 [Forget EXCEPT !.moved = TRUE, !.blk = blk, !.blocks0 = blocks])

(***************************************************************************)
(* Actions: the format factories.                                          *)
(***************************************************************************)
\* n definitions bld.def(v1), allocated one after the other from state s
RECURSIVE FreshDefs(_, _, _)
FreshDefs(s, n, f) ==
    IF n = 0 THEN <<>> ELSE <<Dst(s, f)>> \o FreshDefs(alloc(s), n - 1, f)

RECURSIVE AllocN(_, _)
AllocN(s, n) == IF n = 0 THEN s ELSE AllocN(alloc(s), n - 1)

\* the operands a caller passes
InOperands == {OperandTemp(VTemp), OperandTemp(STemp), OperandConst(U32(7))}

Construct(bound, vias, names, dflags, operands) ==
    /\ Room(bound)
    /\ \E via \in vias, ub \in UBChoices, f \in dflags, e \in FormatTable :
         /\ e.name \in names
         /\ \E shape \in e.shapes, o \in operands :
              LET s0 == Start(via, ub)
                  defs == FreshDefs(s0, shape[1], f)
                  ops == [i \in 1 .. shape[2] |-> o]
                  r == factory(AllocN(s0, shape[1]), e.formats,
                               e.name \o "_op", defs, ops)
              IN  Commit(via, r, "factory", [name |-> e.name, defs |-> defs])

\* sop1, sop2 and sopc called with a WaveSpecificOpcode
WaveConstruct(bound, vias) ==
    /\ Room(bound)
    /\ \E via \in vias, ub \in UBChoices, e \in FormatTable, n \in WaveSpecificNames :
         /\ e.name \in {"sop1", "sop2", "sopc"}
         /\ \E shape \in e.shapes :
              LET s0 == Start(via, ub)
                  opcode == WaveSpecificOpcode[n]
                  defs == [i \in 1 .. shape[1] |->
                             Definition(Temp(s0.program.nextId + i - 1, s1))]
                  ops == [i \in 1 .. shape[2] |-> OperandTemp(STemp)]
                  r == wave_factory(AllocN(s0, shape[1]), e.formats, opcode,
                                    defs, ops)
              IN  IF w64or32(program, opcode) = Unsupported
                  THEN /\ last' = [NoCall EXCEPT !.op = "wave", !.fault = TRUE,
                                                 !.args = [opcode |-> opcode]]
                       /\ UNCHANGED <<program, bld, blocks, hist>>
                  ELSE Commit(via, r, "wave", [opcode |-> opcode])

(***************************************************************************)
(* Actions: the hand-written helpers.                                      *)
(***************************************************************************)
AllOnes == Bits

\* constants outside 0..MaxImm: near 2^32, literals, inline float constants
ImmSpecials ==
    { AllOnes, AllOnes \ {0}, 4 .. 31, {31}, {0, 31}, 0 .. 30, {0, 4, 16},
      {4, 12, 20, 28}, {23, 30}, {0, 6}, {7}, 0 .. 6, {1, 7}, {0, 16},
      {3, 9, 17}, {0, 1, 2, 3, 4, 5, 6, 7} }

Imms == {U32(n) : n \in 0 .. MaxImm} \cup ImmSpecials

SmallImms == {U32(n) : n \in {0, 1, 7, 8, 9, 11, 20}} \cup {AllOnes}

VMulImm(bound, vias, dflags, imms) ==
    /\ Room(bound)
    /\ \E via \in vias, ub \in UBChoices, f \in dflags, imm \in imms,
          bits24 \in BOOLEAN :
         LET s0 == Start(via, ub)
             dst == Dst(s0, f)
             r == v_mul_imm(alloc(s0), dst, VTemp, imm, bits24)
         IN  Commit(via, r, "v_mul_imm",
                    [dst |-> dst, src |-> VTemp, imm |-> imm, bits24 |-> bits24])

\* the carry-in or borrow a caller passes: none (Operand(s2)), a lane mask
\* temporary, or one fixed to vcc
CarryIns ==
    { NoCarryIn, OperandTemp(MaskTemp), fixed_operand("vcc", MaskTemp).val }

VAdd32(bound, vias, dflags) ==
    /\ Room(bound)
    /\ \E via \in vias, ub \in UBChoices, f \in dflags, a \in InOperands,
          b \in InOperands, carry_out \in BOOLEAN, carry_in \in CarryIns,
          post_ra \in BOOLEAN :
         LET s0 == Start(via, ub)
             dst == Dst(s0, f)
             r == vadd32(alloc(s0), dst, a, b, carry_out, carry_in, post_ra)
         IN  Commit(via, r, "vadd32",
                    [dst |-> dst, a |-> a, b |-> b, carry_out |-> carry_out,
                     carry_in |-> carry_in, post_ra |-> post_ra])

VSub32(bound, vias, dflags) ==
    /\ Room(bound)
    /\ \E via \in vias, ub \in UBChoices, f \in dflags, a \in InOperands,
          b \in InOperands, carry_out \in BOOLEAN, borrow \in CarryIns :
         LET s0 == Start(via, ub)
             dst == Dst(s0, f)
             r == vsub32(alloc(s0), dst, a, b, carry_out, borrow)
         IN  Commit(via, r, "vsub32",
                    [dst |-> dst, a |-> a, b |-> b, carry_out |-> carry_out,
                     borrow |-> borrow])

Copy(bound, vias, dflags) ==
    /\ Room(bound)
    /\ \E via \in vias, ub \in UBChoices, f \in dflags, o \in InOperands :
         LET s0 == Start(via, ub)
             dst == Dst(s0, f)
         IN  Commit(via, copy(alloc(s0), dst, o), "copy", [dst |-> dst])

ReadLane(bound, vias, dflags) ==
    /\ Room(bound)
    /\ \E via \in vias, ub \in UBChoices, f \in dflags, lane \in InOperands :
         LET s0 == Start(via, ub)
             dst == [Dst(s0, f) EXCEPT !.rc = s1]
             r == readlane(alloc(s0), dst, OperandTemp(VTemp), lane)
         IN  Commit(via, r, "readlane", [dst |-> dst])

WriteLane(bound, vias, dflags) ==
    /\ Room(bound)
    /\ \E via \in vias, ub \in UBChoices, f \in dflags, lane \in InOperands :
         LET s0 == Start(via, ub)
             dst == Dst(s0, f)
             r == writelane(alloc(s0), dst, OperandTemp(STemp), lane,
                            OperandTemp(VTemp))
         IN  Commit(via, r, "writelane", [dst |-> dst])

(***************************************************************************)
(* Actions: the fixed-register helpers.  A failed assert aborts.           *)
(***************************************************************************)
BindClasses == {s1, s2, RegClass("sgpr", 4), v1, v2}

\* the outcome of a helper: its value, or the fault
Bound(helper, fixed, rc, r) ==
    [NoCall EXCEPT !.op = helper, !.fault = ~r.ok,
                   !.args = [fixed |-> fixed, rc |-> rc, val |-> r.val]]

\* Operand ${fixed}(Temp tmp), on a temporary the caller holds
BindOperand ==
    /\ ~last.fault
    /\ \E fixed \in FixedRegs, rc \in BindClasses, id \in 1 .. (program.nextId - 1) :
         last' = Bound("fixed_operand", fixed, rc, fixed_operand(fixed, Temp(id, rc)))
    /\ UNCHANGED <<program, bld, blocks, hist>>

\* Definition ${fixed}(Definition def), on bld.def(rc)
BindDefinition(bound) ==
    /\ Room(bound)
    /\ \E fixed \in FixedRegs, rc \in BindClasses :
         LET s0 == Start("self", 0)
         IN  last' = Bound("fixed_definition", fixed, rc,
                           fixed_definition(fixed, def(s0, rc)))
    /\ program' = alloc(Start("self", 0)).program
    /\ hist' = [hist EXCEPT !.calls = hist.calls + 1]
    /\ UNCHANGED <<bld, blocks>>

\* Definition hint_${fixed}(Definition def) and hint_${fixed}(RegClass rc)
HintDefinition(bound) ==
    /\ Room(bound)
    /\ \E fixed \in FixedRegs, rc \in BindClasses :
         LET s0 == Start("self", 0)
         IN  last' = Bound("hint_definition", fixed, rc,
                           hint_definition(fixed, def(s0, rc)))
    /\ program' = alloc(Start("self", 0)).program
    /\ hist' = [hist EXCEPT !.calls = hist.calls + 1]
    /\ UNCHANGED <<bld, blocks>>

(***************************************************************************)
(* Specifications.                                                         *)
(***************************************************************************)
Self == {"self"}

\* the insertion context: targets are switched and instructions constructed
InitInsert ==
    InitWith({GFX9}, {64}, 0 .. MaxInitLen, {Builder0})

NextInsert ==
    \/ Reset0
    \/ ResetBlock
    \/ ResetIt
    \/ MoveEnd
    \/ Construct(MaxInstrs, Self, {"vop1_e64"}, PlainFlags, {OperandTemp(VTemp)})

SpecInsert == InitInsert /\ [][NextInsert]_vars

\* a builder at a cursor, and the copies precise() and nuw() return
NextCopies ==
    \/ ResetIt
    \/ Construct(MaxInstrs, Vias, {"vop1_e64"}, PlainFlags, {OperandTemp(VTemp)})

SpecCopies == InitInsert /\ [][NextCopies]_vars

\* the lowering helpers, appending to a block
InitLower ==
    InitWith(ChipClasses, WaveSizes, {1}, {BuilderBlock(1)})

NextMul == VMulImm(MaxCalls, Self, PlainFlags, Imms)

SpecMul == InitLower /\ [][NextMul]_vars

NextArith ==
    \/ VAdd32(MaxCalls, Self, PlainFlags)
    \/ VSub32(MaxCalls, Self, PlainFlags)

SpecArith == InitLower /\ [][NextArith]_vars

NextWave == WaveConstruct(MaxCalls, Self)

SpecWave == InitLower /\ [][NextWave]_vars

NextFixed ==
    \/ BindOperand
    \/ BindDefinition(MaxCalls)
    \/ HintDefinition(MaxCalls)

SpecFixed == InitLower /\ [][NextFixed]_vars

\* every operation that constructs, through the builder or a flagged copy
Init ==
    InitWith(ChipClasses, WaveSizes, {1}, {Builder0, BuilderBlock(1)})

Next ==
    \/ Construct(MaxCalls, Vias, {e.name : e \in FormatTable}, DstFlags,
                 InOperands)
    \/ WaveConstruct(MaxCalls, Vias)
    \/ VMulImm(MaxCalls, Vias, DstFlags, SmallImms)
    \/ VAdd32(MaxCalls, Vias, DstFlags)
    \/ VSub32(MaxCalls, Vias, DstFlags)
    \/ Copy(MaxCalls, Vias, DstFlags)
    \/ ReadLane(MaxCalls, Vias, DstFlags)
    \/ WriteLane(MaxCalls, Vias, DstFlags)

Spec == Init /\ [][Next]_vars

(***************************************************************************)
(* Properties.                                                             *)
(***************************************************************************)
\* the values of the vector source the emitted sequences are run on
MaxVal == 2

TestValues ==
    {U32(n) : n \in 0 .. MaxVal}
    \cup {AllOnes, {31}, {0, 15, 16, 31}}

\* the ids of the temporaries an instruction defines and reads
DefIds(ins) == {ins.definitions[j].id : j \in 1 .. Len(ins.definitions)}

ReadIds(ins) ==
    {ins.operands[j].id : j \in {k \in 1 .. Len(ins.operands) : isTemp(ins.operands[k])}}

\* a power of two 2^k as a word, and k
Log2(n) == Min(n)

IsShiftBy(ins, k, t) ==
    /\ ins.opcode = "v_lshlrev_b32"
    /\ ins.operands = <<OperandConst(U32(k)), OperandTemp(t)>>

AddOpcodes == {"v_add_u32", "v_add_co_u32", "v_add_co_u32_e64"}

SubOpcodes == {"v_sub_u32", "v_sub_co_u32", "v_sub_co_u32_e64"}

\* C2: in cursor mode, after any number of constructions since
\* reset(instrs, it) put the builder at position p, the sequence is what was
\* before p, then the instructions constructed, in call order, then what
\* was from p on.
C2_CursorOrder ==
    hist.cursor =>
        blocks[hist.blk] =
            SubSeq(hist.seq0, 1, hist.p - 1) \o hist.new
                \o SubSeq(hist.seq0, hist.p, Len(hist.seq0))

\* three constructions at a cursor in the middle of a sequence
C2_Witness ==
    /\ hist.cursor
    /\ Len(hist.new) >= 2
    /\ 1 < hist.p
    /\ hist.p <= Len(hist.seq0)

MulCall == last.op = "v_mul_imm"

\* C1: run on any value v of the source, the sequence v_mul_imm emits (the
\* 24-bit path not requested) leaves v * imm mod 2^32 in dst.
C1_MulImmValue ==
    (MulCall /\ ~last.args.bits24) =>
        \A v \in TestValues :
            LET env == Exec((last.args.src.id :> v), last.emitted)
                d == last.args.dst.id
            IN  d \in DOMAIN env /\ env[d] = Mul32(v, last.args.imm)

\* a set-bit chain of at least four instructions was emitted
C1_Witness ==
    /\ MulCall
    /\ ~last.args.bits24
    /\ Len(last.emitted) >= 4
    /\ last.res.opcode \in AddOpcodes

C10_MulImmDst ==
    MulCall =>
        LET em == last.emitted
            n == Len(em)
            d == last.args.dst.id
        IN  /\ n >= 1
            /\ \A i \in 1 .. n : (d \in DefIds(em[i])) <=> (i = n)
            /\ last.res = em[n]
            /\ \A i \in 1 .. n : \A id \in ReadIds(em[i]) :
                  \/ id = last.args.src.id
                  \/ \E k \in 1 .. (i - 1) : id \in DefIds(em[k])

\* a chain before GFX9, whose adds define a carry too
C10_Witness ==
    /\ MulCall
    /\ program.chip_class < GFX9
    /\ Len(last.emitted) >= 3
    /\ Len(last.res.definitions) = 2
    /\ last.res.opcode = "v_add_co_u32"

\* C4: vadd32 with a defined carry-in emits v_addc_co_u32 with the carry-in
\* as its third operand and its carry definition bound, as a hint, to vcc,
\* on every generation and whatever carry_out and post_ra are.
C4_AddCarryIn ==
    (last.op = "vadd32" /\ ~isUndefined(last.args.carry_in)) =>
        LET add == last.res IN
            /\ add = last.emitted[Len(last.emitted)]
            /\ add.opcode = "v_addc_co_u32"
            /\ Len(add.operands) = 3
            /\ add.operands[3] = last.args.carry_in
            /\ Len(add.definitions) = 2
            /\ add.definitions[1].id = last.args.dst.id
            /\ add.definitions[2].hint = "vcc"
            /\ add.definitions[2].rc = lane_mask(program)

\* a carry-in together with a carry-out request on GFX10
C4_Witness ==
    /\ last.op = "vadd32"
    /\ ~isUndefined(last.args.carry_in)
    /\ last.args.carry_out
    /\ last.args.post_ra
    /\ program.chip_class = GFX10
    /\ last.res.opcode = "v_addc_co_u32"

\* C5: vsub32 with a defined borrow emits a borrow opcode with three
\* operands and two definitions, the second the carry-out, on every
\* generation and also when carry_out is false.
C5_SubBorrow ==
    (last.op = "vsub32" /\ ~isUndefined(last.args.borrow)) =>
        LET sub == last.res IN
            /\ sub = last.emitted[Len(last.emitted)]
            /\ sub.opcode \in {"v_subb_co_u32", "v_subbrev_co_u32"}
            /\ Len(sub.operands) = 3
            /\ sub.operands[3] = last.args.borrow
            /\ Len(sub.definitions) = 2
            /\ sub.definitions[1].id = last.args.dst.id
            /\ sub.definitions[2].id # last.args.dst.id
            /\ sub.definitions[2].rc = s2
            /\ sub.definitions[2].hint = "vcc"

\* a borrow without a carry-out request, where carry-out is not forced by
\* the generation
C5_Witness ==
    /\ last.op = "vsub32"
    /\ ~isUndefined(last.args.borrow)
    /\ ~last.args.carry_out
    /\ program.chip_class >= GFX9
    /\ last.res.opcode = "v_subbrev_co_u32"

\* C9 as stated: on GFX10 every subtract of vsub32 with two definitions is
\* built in the VOP3 encoding.
C9_Original ==
    (last.op = "vsub32" /\ program.chip_class >= GFX10
        /\ Len(last.res.definitions) = 2) =>
        last.res.format = {"VOP3"}

\* C9, amended: on GFX10 every carry-producing subtract of vsub32 without a
\* borrow-in, plain or reversed, is built in the VOP3 encoding with the e64
\* opcode; the borrow forms stay in the VOP2 encoding with a carry
\* definition hinted to vcc.
C9_SubEncoding ==
    (last.op = "vsub32" /\ program.chip_class >= GFX10
        /\ Len(last.res.definitions) = 2) =>
        IF isUndefined(last.args.borrow)
        THEN /\ last.res.format = {"VOP3"}
             /\ last.res.opcode \in {"v_sub_co_u32_e64", "v_subrev_co_u32_e64"}
        ELSE /\ last.res.format = {"VOP2"}
             /\ last.res.opcode \in {"v_subb_co_u32", "v_subbrev_co_u32"}
             /\ last.res.definitions[2].hint = "vcc"

\* a reversed carry-producing subtract on GFX10
C9_Witness ==
    /\ last.op = "vsub32"
    /\ program.chip_class >= GFX10
    /\ isUndefined(last.args.borrow)
    /\ last.res.opcode = "v_subrev_co_u32_e64"
    /\ Len(last.res.definitions) = 2

\* the program with the other wavefront width
OtherWidth(p) == [p EXCEPT !.wave_size = IF p.wave_size = 64 THEN 32 ELSE 64]

\* C6: on each of the 18 WaveSpecificOpcode values w64or32 returns an opcode
\* and never faults; the opcode differs from the one of the other width,
\* and at width 32 from the one of every other logical opcode.
C6_WaveTotal ==
    /\ Cardinality(WaveSpecificNames) = 18
    /\ last.op = "wave" =>
        LET o == last.args.opcode IN
            /\ ~last.fault
            /\ last.res.opcode # Unsupported
            /\ last.res.opcode # w64or32(OtherWidth(program), o)
            /\ w64or32(OtherWidth(program), o) # Unsupported
            /\ \A n \in WaveSpecificNames :
                  WaveSpecificOpcode[n] # o =>
                      w64or32(program, WaveSpecificOpcode[n]) # last.res.opcode

\* s_lshl, the last case of the switch, at width 32
C6_Witness ==
    /\ last.op = "wave"
    /\ program.wave_size = 32
    /\ last.args.opcode = WaveSpecificOpcode.s_lshl
    /\ last.res.opcode = "s_lshl_b32"

BindOps == {"fixed_operand", "fixed_definition", "hint_definition"}

\* C7: binding vcc to an operand or a definition of a vector-domain Temp
\* faults, through the fixed operand, the fixed definition and the hinted
\* definition helper, and no placement is returned.
C7_VccVectorFaults ==
    (last.op \in BindOps /\ last.args.fixed = "vcc"
        /\ last.args.rc.type = "vgpr") =>
        /\ last.fault
        /\ last.args.val.fixed = NoReg
        /\ last.op # "fixed_operand" => last.args.val.hint = NoReg

\* hint_vcc on a definition of class v1
C7_Witness ==
    /\ last.op = "hint_definition"
    /\ last.args.fixed = "vcc"
    /\ last.args.rc = v1
    /\ last.fault

\* C8: every instruction a builder operation constructs has, on each of its
\* definitions, precise and nuw equal to is_precise and is_nuw of the
\* builder the call was made through.
C8_FlagsApplied ==
    \A i \in 1 .. Len(last.emitted) :
        \A j \in 1 .. Len(last.emitted[i].definitions) :
            /\ last.emitted[i].definitions[j].precise = last.is_precise
            /\ last.emitted[i].definitions[j].nuw = last.is_nuw

\* the values the caller's temporaries hold when the subtract is run
SubEnvs ==
    { (VTemp.id :> x) @@ (STemp.id :> y) @@ (MaskTemp.id :> m) :
        x \in {U32(5), AllOnes}, y \in {U32(0), U32(9)}, m \in {{0}, {1}} }

RevOpcodes ==
    {"v_subrev_u32", "v_subrev_co_u32", "v_subbrev_co_u32", "v_subrev_co_u32_e64"}

\* the borrow of this lane a borrow operand holds; 0 when there is none
BorrowBit(env, borrow) ==
    IF isUndefined(borrow) THEN {} ELSE LaneBit(OperandValue(env, borrow))

\* C11: the subtract vsub32 emits has a reversed opcode exactly when the
\* caller's second operand is not a vector-domain Temp, its operands are then
\* the caller's in swapped order, and run on any values the emitted sequence
\* leaves (first operand) - (second operand) - borrow mod 2^32 in dst.
C11_SubReverse ==
    last.op = "vsub32" =>
        LET a == last.args.a
            b == last.args.b
            sub == last.res
            swapped == ~(isTemp(b) /\ b.rc.type = "vgpr")
        IN  /\ (sub.opcode \in RevOpcodes) <=> swapped
            /\ sub.operands[1] = (IF swapped THEN b ELSE a)
            /\ \A env \in SubEnvs :
                  LET out == Exec(env, last.emitted)
                      d == last.args.dst.id
                  IN  /\ d \in DOMAIN out
                      /\ out[d] = Sub32(Sub32(OperandValue(env, a),
                                              OperandValue(env, b)),
                                        BorrowBit(env, last.args.borrow))

\* a constant minus a scalar temporary with a borrow: the operands are
\* swapped, the caller's first operand is copied to a vector temporary
C11_Witness ==
    /\ last.op = "vsub32"
    /\ isConstant(last.args.a)
    /\ last.args.b = OperandTemp(STemp)
    /\ ~isUndefined(last.args.borrow)
    /\ last.res.opcode = "v_subbrev_co_u32"
    /\ Len(last.emitted) = 2

\* C12: after moveEnd(block), whatever the target was before, the process
\* runs on, block's sequence is what it was followed by the instructions
\* constructed since, in call order, and every other sequence is as it was.
C12_MoveEndAppends ==
    hist.moved =>
        /\ ~last.fault
        /\ blocks[hist.blk] = hist.blocks0[hist.blk] \o hist.new
        /\ \A blk \in BlockIds \ {hist.blk} : blocks[blk] = hist.blocks0[blk]

\* C13: a call through the builder precise() or nuw() returns leaves the
\* flags and the target of the original as they were, and in cursor mode the
\* process runs on and the target sequence is what was before the cursor,
\* then the instructions constructed through the builder and its copies, in
\* call order, then what was from the cursor on.
C13_CopiesOrder ==
    /\ last.via # "self" =>
          /\ ~bld.is_precise
          /\ ~bld.is_nuw
          /\ hist.cursor => (bld.instructions = hist.blk /\ bld.use_iterator)
    /\ hist.cursor =>
          /\ ~last.fault
          /\ blocks[hist.blk] =
                SubSeq(hist.seq0, 1, hist.p - 1) \o hist.new
                    \o SubSeq(hist.seq0, hist.p, Len(hist.seq0))

====
